---- MODULE Spec2Model ----
(***************************************************************************)
(* cita-cli, src/cli/contract_command.rs: the system contract manager      *)
(* ("scm") command.  contract_command() declares the command schema        *)
(* (group -> operation -> arguments), contract_processor() dispatches a    *)
(* matched command to a contract client facade, prints the response and    *)
(* records it as the session's last output.                                *)
(*                                                                         *)
(* An interactive session is modelled: the user enters a command, the      *)
(* schema is applied to it (required arguments, defaults, validators),     *)
(* an accepted command is handed to contract_processor, and the session    *)
(* returns to the prompt.  contract_processor is one atomic action; the    *)
(* order of the steps it takes is recorded in the variable trace.          *)
(***************************************************************************)
EXTENDS Integers, Sequences, FiniteSets, TLC

\* Largest number of --tx-code values given to one BatchTx multiTxs command.
MaxTxCodes == 2

(***************************************************************************)
(* Option<T> is a sequence of length at most one.                          *)
(***************************************************************************)
None == <<>>

Some(v) == <<v>>

IsSome(o) == o /= <<>>

(***************************************************************************)
(* Raw argument strings the user may type.                                 *)
(***************************************************************************)
Addr1 == "0x00000000000000000000000000000000000000a1"

Addr2 == "0x00000000000000000000000000000000000000a2"

AddrList == "0x00000000000000000000000000000000000000a1,0x00000000000000000000000000000000000000a2"

\* Twenty bytes of hex digits without the 0x prefix.
AddrBare == "00000000000000000000000000000000000000a1"

\* As long as an address, with a character that is no hex digit.
AddrNotHex == "0x00000000000000000000000000000000000000zz"

HexShort == "0xabcdef01"

HashList == "0xabcdef01,0xabcdef02"

NotHex == "0xzz"

Key1 == "0x1111111111111111111111111111111111111111111111111111111111111111"

Key2 == "0x2222222222222222222222222222222222222222222222222222222222222222"

BadKey == "0x1234"

FreeText == "n"

\* The largest unsigned 64-bit number, and the number after it.
MaxU64Str == "18446744073709551615"

OverU64Str == "18446744073709551616"

(***************************************************************************)
(* The validators of module cli (parse_address, is_hex, parse_u64,         *)
(* parse_privkey, parse_height) and the boolean parser of the standard     *)
(* library, on the raw strings above.                                      *)
(***************************************************************************)
\* The raw strings that start with "0x".
Prefixed ==
    {Addr1, Addr2, AddrList, AddrNotHex, HexShort, HashList, NotHex, Key1, Key2,
     BadKey}

\* The raw strings that are, after an optional "0x", hex digits only.
HexDigitsOnly ==
    {Addr1, Addr2, AddrBare, HexShort, Key1, Key2, BadKey, "7", "007", "100",
     MaxU64Str, OverU64Str}

\* The number of hex digits of a raw string.
HexLen(s) == IF s \in Prefixed THEN Len(s) - 2 ELSE Len(s)

\* An address is 20 bytes of hex digits, optionally prefixed.
parse_address(s) == s \in HexDigitsOnly /\ HexLen(s) = 40

is_hex(s) == s \in HexDigitsOnly

\* A private key is 32 bytes of hex digits.
parse_privkey(s) == s \in HexDigitsOnly /\ HexLen(s) = 64

parse_height(s) == s \in {"latest", "100"}

\* The decimal digits of the raw strings that are unsigned decimal
\* numerals.  A number is the sequence of its decimal digits without
\* leading zeros: an unsigned 64-bit number does not fit the integers of
\* the model checker.
U64Table ==
    ("7" :> <<7>>) @@ ("007" :> <<0, 0, 7>>) @@ ("100" :> <<1, 0, 0>>) @@
    (MaxU64Str :> <<1, 8, 4, 4, 6, 7, 4, 4, 0, 7, 3, 7, 0, 9, 5, 5, 1, 6, 1, 5>>) @@
    (OverU64Str :> <<1, 8, 4, 4, 6, 7, 4, 4, 0, 7, 3, 7, 0, 9, 5, 5, 1, 6, 1, 6>>)

\* 2^64 - 1
MaxU64 == <<1, 8, 4, 4, 6, 7, 4, 4, 0, 7, 3, 7, 0, 9, 5, 5, 1, 6, 1, 5>>

RECURSIVE StripZeros(_)
StripZeros(d) == IF Len(d) > 1 /\ d[1] = 0 THEN StripZeros(Tail(d)) ELSE d

\* a <= b for two numbers
RECURSIVE NumLeq(_, _)
NumLeq(a, b) ==
    IF Len(a) /= Len(b) THEN Len(a) < Len(b)
    ELSE IF a = <<>> THEN TRUE
    ELSE IF a[1] /= b[1] THEN a[1] < b[1]
    ELSE NumLeq(Tail(a), Tail(b))

parse_u64_ok(s) == s \in DOMAIN U64Table /\ NumLeq(StripZeros(U64Table[s]), MaxU64)

parse_u64(s) == StripZeros(U64Table[s])

\* u64::to_string: the decimal numeral of a number, without leading zeros.
u64_to_string(n) == CHOOSE s \in DOMAIN U64Table : U64Table[s] = n

parse_bool_ok(s) == s \in {"true", "false"}

parse_bool(s) == s = "true"

Validates(validator, s) ==
    CASE validator = "parse_address" -> parse_address(s)
      [] validator = "is_hex"        -> is_hex(s)
      [] validator = "parse_u64"     -> parse_u64_ok(s)
      [] validator = "parse_privkey" -> parse_privkey(s)
      [] validator = "parse_height"  -> parse_height(s)
      [] validator = "parse_bool"    -> parse_bool_ok(s)
      [] OTHER                       -> TRUE

\* The raw strings tried for an argument, by the validator it declares.
Candidates(validator) ==
    CASE validator = "parse_address" -> {Addr1, Addr2, HexShort}
      [] validator = "is_hex"        -> {Addr1, HexShort, NotHex}
      [] validator = "parse_u64"     -> {"7", "-1"}
      [] validator = "parse_privkey" -> {Key1, Key2, BadKey}
      [] validator = "parse_height"  -> {"latest", "100", "-1"}
      [] validator = "parse_bool"    -> {"true", "false", "notaboolean"}
      [] OTHER                       -> {FreeText}

\* The raw strings tried for one argument.  The arguments documented as
\* lists are tried with a delimited value of more than one element.
CandidatesOf(spec) ==
    CASE spec.name \in {"contracts", "permissions"} -> {Addr1, AddrList, HexShort}
      [] spec.name = "address" ->
            {Addr1, Addr2, AddrBare, HexShort, AddrNotHex}
      [] spec.name = "stake" ->
            {"7", "007", "-1", MaxU64Str, OverU64Str}
      [] spec.name = "accounts"                      -> {AddrList}
      [] spec.name = "function-hashes"               -> {HashList}
      [] OTHER                                       -> Candidates(spec.validator)

(***************************************************************************)
(* The command schema of contract_command().                               *)
(***************************************************************************)
Arg(n, r, v) ==
    [name |-> n, required |-> r, validator |-> v, default |-> None,
     multiple |-> FALSE]

\* An --address argument declared without its validator.
address_arg_NoValidator == Arg("address", TRUE, "")

address_arg == Arg("address", TRUE, "parse_address")

name_arg == Arg("name", TRUE, "")

\* A --quota argument declared without its validator.
quota_arg_NoValidator == Arg("quota", FALSE, "")

quota_arg == Arg("quota", FALSE, "parse_u64")

height_arg ==
    [name |-> "height", required |-> FALSE, validator |-> "parse_height",
     default |-> Some("latest"), multiple |-> FALSE]

group_address_arg == address_arg

group_name_arg == name_arg

group_origin_arg == Arg("origin", TRUE, "is_hex")

group_target_arg == Arg("target", TRUE, "is_hex")

group_accounts_arg == Arg("accounts", TRUE, "")

account_address_arg == Arg("account", TRUE, "parse_address")

contract_address_arg == Arg("contract", TRUE, "parse_address")

function_hash_arg == Arg("function-hash", TRUE, "is_hex")

contracts_address_arg == Arg("contracts", TRUE, "parse_address")

function_hashes_arg == Arg("function-hashes", TRUE, "")

private_key == Arg("private-key", TRUE, "parse_privkey")

role_address_arg == address_arg

role_name_arg == name_arg

permission_address_arg == Arg("permission", TRUE, "parse_address")

permission_name_arg == name_arg

permissions_address_arg == Arg("permissions", TRUE, "parse_address")

\* Arguments declared inline in the schema tree.
admin_private_arg == Arg("admin-private", TRUE, "parse_privkey")

stake_arg == Arg("stake", TRUE, "parse_u64")

quota_limit_arg == Arg("quota-limit", TRUE, "parse_u64")

tx_code_arg ==
    [name |-> "tx-code", required |-> TRUE, validator |-> "is_hex",
     default |-> None, multiple |-> TRUE]

chain_name_arg == Arg("chain-name", TRUE, "")

operator_arg == Arg("operator", TRUE, "")

website_arg == Arg("website", TRUE, "")

\* A --state argument declared without its validator.
state_arg_NoValidator == Arg("state", TRUE, "")

state_arg == Arg("state", TRUE, "parse_bool")

NodeManagerSchema ==
    (<<"NodeManager", "listNode">> :> <<height_arg>>) @@
    (<<"NodeManager", "listStake">> :> <<height_arg>>) @@
    (<<"NodeManager", "getStatus">> :> <<address_arg, height_arg>>) @@
    (<<"NodeManager", "deleteNode">> :> <<admin_private_arg, address_arg, quota_arg>>) @@
    (<<"NodeManager", "approveNode">> :> <<admin_private_arg, address_arg, quota_arg>>) @@
    (<<"NodeManager", "setStake">> :> <<admin_private_arg, stake_arg, address_arg, quota_arg>>) @@
    (<<"NodeManager", "stakePermillage">> :> <<address_arg, height_arg>>)

QuotaManagerSchema ==
    (<<"QuotaManager", "getBQL">> :> <<height_arg>>) @@
    (<<"QuotaManager", "getDefaultAQL">> :> <<height_arg>>) @@
    (<<"QuotaManager", "getAccounts">> :> <<height_arg>>) @@
    (<<"QuotaManager", "getQuotas">> :> <<height_arg>>) @@
    (<<"QuotaManager", "getAQL">> :> <<address_arg>>) @@
    (<<"QuotaManager", "setBQL">> :> <<quota_limit_arg, admin_private_arg, quota_arg>>) @@
    (<<"QuotaManager", "setDefaultAQL">> :> <<quota_limit_arg, admin_private_arg, quota_arg>>) @@
    (<<"QuotaManager", "setAQL">> :> <<quota_limit_arg, admin_private_arg, address_arg, quota_arg>>)

GroupManagementSchema ==
    (<<"GroupManagement", "newGroup">> :>
        <<group_origin_arg, group_name_arg, group_accounts_arg, quota_arg, private_key>>) @@
    (<<"GroupManagement", "deleteGroup">> :>
        <<group_origin_arg, group_target_arg, quota_arg, private_key>>) @@
    (<<"GroupManagement", "updateGroupName">> :>
        <<group_origin_arg, group_target_arg, group_name_arg, quota_arg, private_key>>) @@
    (<<"GroupManagement", "addAccounts">> :>
        <<group_origin_arg, group_target_arg, group_accounts_arg, quota_arg, private_key>>) @@
    (<<"GroupManagement", "deleteAccounts">> :>
        <<group_origin_arg, group_target_arg, group_accounts_arg, quota_arg, private_key>>) @@
    (<<"GroupManagement", "checkScope">> :>
        <<group_origin_arg, group_target_arg, height_arg>>) @@
    (<<"GroupManagement", "queryGroups">> :> <<height_arg>>)

GroupSchema ==
    (<<"Group", "queryInfo">> :> <<group_address_arg, height_arg>>) @@
    (<<"Group", "queryName">> :> <<group_address_arg, height_arg>>) @@
    (<<"Group", "queryAccounts">> :> <<group_address_arg, height_arg>>) @@
    (<<"Group", "queryChild">> :> <<group_address_arg, height_arg>>) @@
    (<<"Group", "queryChildLength">> :> <<group_address_arg, height_arg>>) @@
    (<<"Group", "queryParent">> :> <<group_address_arg, height_arg>>) @@
    (<<"Group", "inGroup">> :> <<group_address_arg, height_arg>>)

RoleSchema ==
    (<<"Role", "queryRole">> :> <<role_address_arg, height_arg>>) @@
    (<<"Role", "queryName">> :> <<role_address_arg, height_arg>>) @@
    (<<"Role", "queryPermissions">> :> <<role_address_arg, height_arg>>) @@
    (<<"Role", "lengthOfPermissions">> :> <<role_address_arg, height_arg>>) @@
    (<<"Role", "inPermissions">> :>
        <<role_address_arg, permission_address_arg, height_arg>>)

RoleManagementSchema ==
    (<<"RoleManagement", "newRole">> :>
        <<role_name_arg, permissions_address_arg, quota_arg, private_key>>) @@
    (<<"RoleManagement", "deleteRole">> :>
        <<role_address_arg, quota_arg, private_key>>) @@
    (<<"RoleManagement", "updateRoleName">> :>
        <<role_address_arg, role_name_arg, quota_arg, private_key>>) @@
    (<<"RoleManagement", "addPermissions">> :>
        <<role_address_arg, permissions_address_arg, quota_arg, private_key>>) @@
    (<<"RoleManagement", "deletePermissions">> :>
        <<role_address_arg, permissions_address_arg, quota_arg, private_key>>) @@
    (<<"RoleManagement", "setRole">> :>
        <<account_address_arg, role_address_arg, quota_arg, private_key>>) @@
    (<<"RoleManagement", "cancelRole">> :>
        <<account_address_arg, role_address_arg, quota_arg, private_key>>) @@
    (<<"RoleManagement", "clearRole">> :>
        <<account_address_arg, quota_arg, private_key>>) @@
    (<<"RoleManagement", "queryRoles">> :> <<account_address_arg, height_arg>>) @@
    (<<"RoleManagement", "queryAccounts">> :> <<role_address_arg, height_arg>>)

AuthorizationSchema ==
    (<<"Authorization", "queryPermissions">> :> <<account_address_arg, height_arg>>) @@
    (<<"Authorization", "queryAccounts">> :> <<permission_address_arg, height_arg>>) @@
    (<<"Authorization", "queryAllAccounts">> :> <<height_arg>>) @@
    (<<"Authorization", "checkResource">> :>
        <<account_address_arg, contract_address_arg, function_hash_arg, height_arg>>) @@
    (<<"Authorization", "checkPermission">> :>
        <<account_address_arg, permission_address_arg, height_arg>>)

PermissionSchema ==
    (<<"Permission", "inPermission">> :>
        <<permission_address_arg, contract_address_arg, function_hash_arg, height_arg>>) @@
    (<<"Permission", "queryInfo">> :> <<permission_address_arg, height_arg>>) @@
    (<<"Permission", "queryName">> :> <<permission_address_arg, height_arg>>) @@
    (<<"Permission", "queryResource">> :> <<permission_address_arg, height_arg>>)

PermissionManagementSchema ==
    (<<"PermissionManagement", "newPermission">> :>
        <<permission_name_arg, contracts_address_arg, function_hashes_arg, quota_arg,
          private_key>>) @@
    (<<"PermissionManagement", "deletePermission">> :>
        <<permission_address_arg, quota_arg, private_key>>) @@
    (<<"PermissionManagement", "updatePermissionName">> :>
        <<permission_address_arg, permission_name_arg, quota_arg, private_key>>) @@
    (<<"PermissionManagement", "addResources">> :>
        <<permission_address_arg, contracts_address_arg, function_hashes_arg, quota_arg,
          private_key>>) @@
    (<<"PermissionManagement", "deleteResources">> :>
        <<permission_address_arg, contracts_address_arg, function_hashes_arg, quota_arg,
          private_key>>) @@
    (<<"PermissionManagement", "setAuthorization">> :>
        <<permission_address_arg, account_address_arg, quota_arg, private_key>>) @@
    (<<"PermissionManagement", "setAuthorizations">> :>
        <<permissions_address_arg, account_address_arg, quota_arg, private_key>>) @@
    (<<"PermissionManagement", "cancelAuthorization">> :>
        <<permission_address_arg, account_address_arg, quota_arg, private_key>>) @@
    (<<"PermissionManagement", "cancelAuthorizations">> :>
        <<permissions_address_arg, account_address_arg, quota_arg, private_key>>) @@
    (<<"PermissionManagement", "clearAuthorization">> :>
        <<account_address_arg, quota_arg, private_key>>)

AdminManagementSchema ==
    (<<"AdminManagement", "admin">> :> <<height_arg>>) @@
    (<<"AdminManagement", "isAdmin">> :> <<address_arg, height_arg>>) @@
    (<<"AdminManagement", "update">> :> <<address_arg, admin_private_arg, quota_arg>>)

BatchTxSchema ==
    (<<"BatchTx", "multiTxs">> :> <<tx_code_arg, quota_arg, private_key>>)

SysConfigSchema ==
    (<<"SysConfig", "getChainOwner">> :> <<height_arg>>) @@
    (<<"SysConfig", "getDelayBlockNumber">> :> <<height_arg>>) @@
    (<<"SysConfig", "getFeeBackPlatformCheck">> :> <<height_arg>>) @@
    (<<"SysConfig", "getEconomicalModel">> :> <<height_arg>>) @@
    (<<"SysConfig", "getPermissionCheck">> :> <<height_arg>>) @@
    (<<"SysConfig", "getQuotaCheck">> :> <<height_arg>>) @@
    (<<"SysConfig", "setChainName">> :> <<chain_name_arg, quota_arg, admin_private_arg>>) @@
    (<<"SysConfig", "setOperator">> :> <<operator_arg, quota_arg, admin_private_arg>>) @@
    (<<"SysConfig", "setWebsite">> :> <<website_arg, quota_arg, admin_private_arg>>)

EmergencyBrakeSchema ==
    (<<"EmergencyBrake", "state">> :> <<height_arg>>) @@
    (<<"EmergencyBrake", "setState">> :> <<state_arg, quota_arg, admin_private_arg>>)

\* contract_command(): App "scm" with one subcommand per contract group.
contract_command ==
    NodeManagerSchema @@ QuotaManagerSchema @@ GroupManagementSchema @@
    GroupSchema @@ RoleSchema @@ RoleManagementSchema @@ AuthorizationSchema @@
    PermissionSchema @@ PermissionManagementSchema @@ AdminManagementSchema @@
    BatchTxSchema @@ SysConfigSchema @@ EmergencyBrakeSchema

SchemaPaths == DOMAIN contract_command

SchemaGroups == {p[1] : p \in SchemaPaths}

(***************************************************************************)
(* ArgMatches.  A command line is a group name, an operation name (either  *)
(* may be missing, written "") and, for each argument the operation        *)
(* declares, the sequence of raw values given for it.                      *)
(***************************************************************************)
NoSub == ""

ValueChoices(spec) ==
    {None} \cup {<<v>> : v \in CandidatesOf(spec)} \cup
    (IF spec.multiple
        THEN UNION {[1..k -> CandidatesOf(spec)] : k \in 2..MaxTxCodes}
        ELSE {})

RECURSIVE ArgChoices(_, _)
ArgChoices(specs, i) ==
    IF i = Len(specs)
        THEN {(specs[i].name :> v) : v \in ValueChoices(specs[i])}
        ELSE {(specs[i].name :> v) @@ rest :
                 v \in ValueChoices(specs[i]), rest \in ArgChoices(specs, i + 1)}

\* Command lines the user can enter: a declared path with some arguments,
\* a group without an operation, or nothing after "scm".
CommandLines ==
    UNION {{[group |-> p[1], op |-> p[2], args |-> a] :
                a \in ArgChoices(contract_command[p], 1)} : p \in SchemaPaths}
    \cup {[group |-> g, op |-> NoSub, args |-> <<>>] : g \in SchemaGroups}
    \cup {[group |-> NoSub, op |-> NoSub, args |-> <<>>]}

NoCommand == [group |-> NoSub, op |-> NoSub, args |-> <<>>]

\* ArgMatches::value_of: the first value of a present argument.
value_of(m, name) ==
    IF name \in DOMAIN m /\ m[name] /= <<>> THEN Some(m[name][1]) ELSE None

\* ArgMatches::values_of: all values of a present argument.
values_of(m, name) ==
    IF name \in DOMAIN m /\ m[name] /= <<>> THEN Some(m[name]) ELSE None

\* The values an argument has after parsing: the given ones, or the default.
Supplied(spec, given) ==
    IF given = <<>> /\ IsSome(spec.default) THEN spec.default ELSE given

\* ArgError of a schema whose arguments are not marked required.
ArgError_NotRequired(spec, given) ==
    IF given /= <<>> /\ \E i \in 1..Len(given) : ~Validates(spec.validator, given[i])
        THEN "ValueValidation"
        ELSE ""

\* What the schema makes of one argument: "" when it is accepted.
ArgError(spec, given) ==
    IF given = <<>>
        THEN IF spec.required THEN "MissingRequiredArgument" ELSE ""
        ELSE IF \E i \in 1..Len(given) : ~Validates(spec.validator, given[i])
                THEN "ValueValidation"
                ELSE ""

\* The first declared argument the schema rejects, 0 when there is none.
FirstRejected(specs, args) ==
    LET bad == {i \in 1..Len(specs) : ArgError(specs[i], args[specs[i].name]) /= ""}
    IN IF bad = {} THEN 0 ELSE CHOOSE i \in bad : \A j \in bad : i <= j

\* A command line passes the schema.
SchemaAccepts(c) ==
    <<c.group, c.op>> \in SchemaPaths =>
        FirstRejected(contract_command[<<c.group, c.op>>], c.args) = 0

\* The matches handed to contract_processor for an accepted command line.
MatchesOf(c) ==
    IF <<c.group, c.op>> \in SchemaPaths
        THEN LET specs == contract_command[<<c.group, c.op>>]
             IN [n \in {specs[i].name : i \in 1..Len(specs)} |->
                    LET i == CHOOSE j \in 1..Len(specs) : specs[j].name = n
                    IN Supplied(specs[i], c.args[n])]
        ELSE <<>>

(***************************************************************************)
(* The dispatch branches of contract_processor(): for each matched path    *)
(* the statements of its match arm, in the order the code runs them.       *)
(***************************************************************************)
Step(op, a, args) == [op |-> op, a |-> a, args |-> args]

\* let blake2b = blake2b(m, config);
Blake == Step("blake2b", "", <<>>)

\* A match arm that reads the key argument and does not install it.
Key_NotInstalled(a) == [op |-> "unwrap", a |-> a, args |-> <<>>]

\* client.set_private_key(&parse_privkey(m.value_of(a).unwrap())?);
Key(a) == Step("set_private_key", a, <<>>)

\* let x = m.value_of(a).unwrap();
Unwrap(a) == Step("unwrap", a, <<>>)

\* let quota = m.value_of("quota").map(|quota| parse_u64(quota).unwrap());
Quota == Step("quota", "quota", <<>>)

\* A quota limit handed on as the text the user typed.
TryU64_AsString(a) == Step("unwrap", a, <<>>)

\* let quota_limit = parse_u64(m.value_of(a).unwrap())?;
TryU64(a) == Step("try_u64", a, <<>>)

\* A stake handed on as the text the user typed.
StakeString_Raw(a) == Step("unwrap", a, <<>>)

\* m.value_of(a).map(|stake| parse_u64(stake).unwrap().to_string()).unwrap()
StakeString(a) == Step("stake_string", a, <<>>)

\* m.value_of(a).map(|state| state.parse::<bool>().unwrap()).unwrap()
ParseBool(a) == Step("parse_bool", a, <<>>)

\* Only the first of the values given is taken.
ValuesOf_FirstOnly(a) == Step("unwrap", a, <<>>)

\* m.values_of(a).map(|value| value.collect()).unwrap()
ValuesOf(a) == Step("values_of", a, <<>>)

\* XClient::create(Some(client))
Create(f) == Step("create", f, <<>>)

\* client.method(args.., m.value_of("height"))
Query(method, args) == Step("query", method, args)

\* client.method(args.., quota, blake2b)
Send(method, args) == Step("send", method, args)

NodeManagerBranches ==
    (<<"NodeManager", "listNode">> :>
        <<Create("NodeManageClient"), Query("get_authorities", <<>>)>>) @@
    (<<"NodeManager", "listStake">> :>
        <<Create("NodeManageClient"), Query("list_stake", <<>>)>>) @@
    (<<"NodeManager", "getStatus">> :>
        <<Unwrap("address"), Create("NodeManageClient"),
          Query("node_status", <<"address">>)>>) @@
    (<<"NodeManager", "deleteNode">> :>
        <<Blake, Key("admin-private"), Unwrap("address"), Quota,
          Create("NodeManageClient"),
          Send("downgrade_consensus_node", <<"address">>)>>) @@
    (<<"NodeManager", "approveNode">> :>
        <<Blake, Key("admin-private"), Unwrap("address"), Quota,
          Create("NodeManageClient"), Send("approve_node", <<"address">>)>>) @@
    (<<"NodeManager", "setStake">> :>
        <<Blake, Key("admin-private"), Unwrap("address"), Quota,
          StakeString("stake"), Create("NodeManageClient"),
          Send("set_stake", <<"address", "stake">>)>>) @@
    (<<"NodeManager", "stakePermillage">> :>
        <<Unwrap("address"), Create("NodeManageClient"),
          Query("stake_permillage", <<"address">>)>>)

QuotaManagerBranches ==
    (<<"QuotaManager", "getBQL">> :>
        <<Create("QuotaManageClient"), Query("get_bql", <<>>)>>) @@
    (<<"QuotaManager", "getDefaultAQL">> :>
        <<Create("QuotaManageClient"), Query("get_default_aql", <<>>)>>) @@
    (<<"QuotaManager", "getAccounts">> :>
        <<Create("QuotaManageClient"), Query("get_accounts", <<>>)>>) @@
    (<<"QuotaManager", "getQuotas">> :>
        <<Create("QuotaManageClient"), Query("get_quotas", <<>>)>>) @@
    (<<"QuotaManager", "getAQL">> :>
        <<Unwrap("address"), Create("QuotaManageClient"),
          Query("get_aql", <<"address">>)>>) @@
    (<<"QuotaManager", "setBQL">> :>
        <<Blake, Key("admin-private"), TryU64("quota-limit"), Quota,
          Create("QuotaManageClient"), Send("set_bql", <<"quota-limit">>)>>) @@
    (<<"QuotaManager", "setDefaultAQL">> :>
        <<Blake, Key("admin-private"), TryU64("quota-limit"), Quota,
          Create("QuotaManageClient"),
          Send("set_default_aql", <<"quota-limit">>)>>) @@
    (<<"QuotaManager", "setAQL">> :>
        <<Blake, Key("admin-private"), TryU64("quota-limit"), Unwrap("address"),
          Quota, Create("QuotaManageClient"),
          Send("set_aql", <<"address", "quota-limit">>)>>)

GroupBranches ==
    (<<"Group", "queryInfo">> :>
        <<Unwrap("address"), Create("GroupClient"),
          Query("query_info", <<"address">>)>>) @@
    (<<"Group", "queryName">> :>
        <<Unwrap("address"), Create("GroupClient"),
          Query("query_name", <<"address">>)>>) @@
    (<<"Group", "queryAccounts">> :>
        <<Unwrap("address"), Create("GroupClient"),
          Query("query_accounts", <<"address">>)>>) @@
    (<<"Group", "queryChild">> :>
        <<Unwrap("address"), Create("GroupClient"),
          Query("query_child", <<"address">>)>>) @@
    (<<"Group", "queryChildLength">> :>
        <<Unwrap("address"), Create("GroupClient"),
          Query("query_child_length", <<"address">>)>>) @@
    (<<"Group", "queryParent">> :>
        <<Unwrap("address"), Create("GroupClient"),
          Query("query_parent", <<"address">>)>>) @@
    (<<"Group", "inGroup">> :>
        <<Unwrap("address"), Unwrap("account"), Create("GroupClient"),
          Query("in_group", <<"address", "account">>)>>)

GroupManagementBranches ==
    (<<"GroupManagement", "newGroup">> :>
        <<Blake, Unwrap("origin"), Unwrap("name"), Unwrap("accounts"), Quota,
          Key("private-key"), Create("GroupManageClient"),
          Send("new_group", <<"origin", "name", "accounts">>)>>) @@
    (<<"GroupManagement", "deleteGroup">> :>
        <<Blake, Unwrap("origin"), Unwrap("target"), Quota,
          Key("private-key"), Create("GroupManageClient"),
          Send("delete_group", <<"origin", "target">>)>>) @@
    (<<"GroupManagement", "updateGroupName">> :>
        <<Blake, Unwrap("origin"), Unwrap("target"), Unwrap("name"), Quota,
          Key("private-key"), Create("GroupManageClient"),
          Send("update_group_name", <<"origin", "target", "name">>)>>) @@
    (<<"GroupManagement", "addAccounts">> :>
        <<Blake, Unwrap("origin"), Unwrap("target"), Unwrap("accounts"), Quota,
          Key("private-key"), Create("GroupManageClient"),
          Send("add_accounts", <<"origin", "target", "accounts">>)>>) @@
    (<<"GroupManagement", "deleteAccounts">> :>
        <<Blake, Unwrap("origin"), Unwrap("target"), Unwrap("accounts"), Quota,
          Key("private-key"), Create("GroupManageClient"),
          Send("delete_accounts", <<"origin", "target", "accounts">>)>>) @@
    (<<"GroupManagement", "checkScope">> :>
        <<Unwrap("origin"), Unwrap("target"), Create("GroupManageClient"),
          Query("check_scope", <<"origin", "target">>)>>) @@
    (<<"GroupManagement", "queryGroups">> :>
        <<Create("GroupManageClient"), Query("query_groups", <<>>)>>)

RoleBranches ==
    (<<"Role", "queryRole">> :>
        <<Unwrap("address"), Create("RoleClient"),
          Query("query_role", <<"address">>)>>) @@
    (<<"Role", "queryName">> :>
        <<Unwrap("address"), Create("RoleClient"),
          Query("query_name", <<"address">>)>>) @@
    (<<"Role", "queryPermissions">> :>
        <<Unwrap("address"), Create("RoleClient"),
          Query("query_permissions", <<"address">>)>>) @@
    (<<"Role", "lengthOfPermissions">> :>
        <<Unwrap("address"), Create("RoleClient"),
          Query("length_of_permissions", <<"address">>)>>) @@
    (<<"Role", "inPermissions">> :>
        <<Unwrap("address"), Unwrap("permission"), Create("RoleClient"),
          Query("in_permissions", <<"address", "permission">>)>>)

RoleManagementBranches ==
    (<<"RoleManagement", "newRole">> :>
        <<Blake, Unwrap("name"), Unwrap("permissions"), Quota,
          Key("private-key"), Create("RoleManageClient"),
          Send("new_role", <<"name", "permissions">>)>>) @@
    (<<"RoleManagement", "deleteRole">> :>
        <<Blake, Unwrap("account"), Unwrap("role"), Quota,
          Key("private-key"), Create("RoleManageClient"),
          Send("set_role", <<"account", "role">>)>>) @@
    (<<"RoleManagement", "cancelRole">> :>
        <<Blake, Unwrap("account"), Unwrap("role"), Quota,
          Key("private-key"), Create("RoleManageClient"),
          Send("cancel_role", <<"account", "role">>)>>) @@
    (<<"RoleManagement", "clearRole">> :>
        <<Blake, Unwrap("account"), Quota,
          Key("private-key"), Create("RoleManageClient"),
          Send("clear_role", <<"account">>)>>) @@
    (<<"RoleManagement", "queryRoles">> :>
        <<Unwrap("account"), Create("RoleManageClient"),
          Query("query_roles", <<"account">>)>>) @@
    (<<"RoleManagement", "queryAccounts">> :>
        <<Unwrap("address"), Create("RoleManageClient"),
          Query("query_accounts", <<"address">>)>>)

AuthorizationBranches ==
    (<<"Authorization", "queryPermissions">> :>
        <<Unwrap("account"), Create("AuthorizationClient"),
          Query("query_permissions", <<"account">>)>>) @@
    (<<"Authorization", "queryAccounts">> :>
        <<Unwrap("permission"), Create("AuthorizationClient"),
          Query("query_accounts", <<"permission">>)>>) @@
    (<<"Authorization", "queryAllAccounts">> :>
        <<Create("AuthorizationClient"), Query("query_all_accounts", <<>>)>>) @@
    (<<"Authorization", "checkResource">> :>
        <<Unwrap("account"), Unwrap("contract"), Unwrap("function-hash"),
          Create("AuthorizationClient"),
          Query("check_resource", <<"account", "contract", "function-hash">>)>>) @@
    (<<"Authorization", "checkPermission">> :>
        <<Unwrap("account"), Unwrap("permission"), Create("AuthorizationClient"),
          Query("check_permission", <<"account", "permission">>)>>)

PermissionBranches ==
    (<<"Permission", "inPermission">> :>
        <<Unwrap("permission"), Unwrap("contract"), Unwrap("function-hash"),
          Create("PermissionClient"),
          Query("in_permission", <<"permission", "contract", "function-hash">>)>>) @@
    (<<"Permission", "queryInfo">> :>
        <<Unwrap("permission"), Create("PermissionClient"),
          Query("query_info", <<"permission">>)>>) @@
    (<<"Permission", "queryName">> :>
        <<Unwrap("permission"), Create("PermissionClient"),
          Query("query_name", <<"permission">>)>>) @@
    (<<"Permission", "queryResource">> :>
        <<Unwrap("permission"), Create("PermissionClient"),
          Query("query_resource", <<"permission">>)>>)

PermissionManagementBranches ==
    (<<"PermissionManagement", "newPermission">> :>
        <<Blake, Unwrap("name"), Unwrap("contracts"), Unwrap("function-hashes"),
          Quota, Key("private-key"), Create("PermissionManageClient"),
          Send("new_permission", <<"name", "contracts", "function-hashes">>)>>) @@
    (<<"PermissionManagement", "deletePermission">> :>
        <<Blake, Unwrap("permission"), Quota, Key("private-key"),
          Create("PermissionManageClient"),
          Send("delete_permission", <<"permission">>)>>) @@
    (<<"PermissionManagement", "updatePermissionName">> :>
        <<Blake, Unwrap("permission"), Unwrap("name"), Quota, Key("private-key"),
          Create("PermissionManageClient"),
          Send("update_permission_name", <<"permission", "name">>)>>) @@
    (<<"PermissionManagement", "addResources">> :>
        <<Blake, Unwrap("permission"), Unwrap("contracts"),
          Unwrap("function-hashes"), Quota, Key("private-key"),
          Create("PermissionManageClient"),
          Send("add_resources", <<"permission", "contracts", "function-hashes">>)>>) @@
    (<<"PermissionManagement", "deleteResources">> :>
        <<Blake, Unwrap("permission"), Unwrap("contracts"),
          Unwrap("function-hashes"), Quota, Key("private-key"),
          Create("PermissionManageClient"),
          Send("delete_resources", <<"permission", "contracts", "function-hashes">>)>>) @@
    (<<"PermissionManagement", "setAuthorization">> :>
        <<Blake, Unwrap("permission"), Unwrap("account"), Quota,
          Key("private-key"), Create("PermissionManageClient"),
          Send("set_authorization", <<"account", "permission">>)>>) @@
    (<<"PermissionManagement", "setAuthorizations">> :>
        <<Blake, Unwrap("permissions"), Unwrap("account"), Quota,
          Key("private-key"), Create("PermissionManageClient"),
          Send("set_authorizations", <<"account", "permissions">>)>>) @@
    (<<"PermissionManagement", "cancelAuthorization">> :>
        <<Blake, Unwrap("permission"), Unwrap("account"), Quota,
          Key("private-key"), Create("PermissionManageClient"),
          Send("cancel_authorization", <<"account", "permission">>)>>) @@
    (<<"PermissionManagement", "cancelAuthorizations">> :>
        <<Blake, Unwrap("permissions"), Unwrap("account"), Quota,
          Key("private-key"), Create("PermissionManageClient"),
          Send("cancel_authorizations", <<"account", "permissions">>)>>) @@
    (<<"PermissionManagement", "clearAuthorization">> :>
        <<Blake, Unwrap("account"), Quota, Key("private-key"),
          Create("PermissionManageClient"),
          Send("clear_authorization", <<"account">>)>>)

AdminManagementBranches ==
    (<<"AdminManagement", "admin">> :>
        <<Create("AdminClient"), Query("admin", <<>>)>>) @@
    (<<"AdminManagement", "isAdmin">> :>
        <<Unwrap("address"), Create("AdminClient"),
          Query("is_admin", <<"address">>)>>) @@
    (<<"AdminManagement", "update">> :>
        <<Blake, Key("admin-private"), Quota, Unwrap("address"),
          Create("AdminClient"), Send("add_admin", <<"address">>)>>)

BatchTxBranches ==
    (<<"BatchTx", "multiTxs">> :>
        <<Blake, Key("private-key"), Quota, ValuesOf("tx-code"),
          Create("BatchTxClient"), Send("multi_transactions", <<"tx-code">>)>>)

SysConfigBranches ==
    (<<"SysConfig", "getChainOwner">> :>
        <<Create("SysConfigClient"), Query("get_chain_owner", <<>>)>>) @@
    (<<"SysConfig", "getDelayBlockNumber">> :>
        <<Create("SysConfigClient"), Query("get_delay_block_number", <<>>)>>) @@
    (<<"SysConfig", "getFeeBackPlatformCheck">> :>
        <<Create("SysConfigClient"), Query("get_feeback_platform_check", <<>>)>>) @@
    (<<"SysConfig", "getEconomicalModel">> :>
        <<Create("SysConfigClient"), Query("get_economical_model", <<>>)>>) @@
    (<<"SysConfig", "getPermissionCheck">> :>
        <<Create("SysConfigClient"), Query("get_permission_check", <<>>)>>) @@
    (<<"SysConfig", "getQuotaCheck">> :>
        <<Create("SysConfigClient"), Query("get_quota_check", <<>>)>>) @@
    (<<"SysConfig", "setChainName">> :>
        <<Blake, Key("admin-private"), Create("SysConfigClient"),
          Unwrap("chain-name"), Quota, Send("set_chain_name", <<"chain-name">>)>>) @@
    (<<"SysConfig", "setOperator">> :>
        <<Blake, Key("admin-private"), Create("SysConfigClient"), Quota,
          Unwrap("operator"), Send("set_operator", <<"operator">>)>>) @@
    (<<"SysConfig", "setWebsite">> :>
        <<Blake, Key("admin-private"), Create("SysConfigClient"), Quota,
          Unwrap("website"), Send("set_website", <<"website">>)>>)

EmergencyBrakeBranches ==
    (<<"EmergencyBrake", "state">> :>
        <<Create("EmergencyBrakeClient"), Query("state", <<>>)>>) @@
    (<<"EmergencyBrake", "setState">> :>
        <<Blake, Key("admin-private"), Create("EmergencyBrakeClient"), Quota,
          ParseBool("state"), Send("set_state", <<"state">>)>>)

\* The inner match arms of contract_processor(), by (group, operation).
Branches ==
    NodeManagerBranches @@ QuotaManagerBranches @@ GroupBranches @@
    GroupManagementBranches @@ RoleBranches @@ RoleManagementBranches @@
    AuthorizationBranches @@ PermissionBranches @@ PermissionManagementBranches @@
    AdminManagementBranches @@ BatchTxBranches @@ SysConfigBranches @@
    EmergencyBrakeBranches

\* The groups the outer match of contract_processor() names.
DispatchGroups ==
    {"NodeManager", "QuotaManager", "Group", "GroupManagement", "Role",
     "RoleManagement", "Authorization", "Permission", "PermissionManagement",
     "AdminManagement", "BatchTx", "SysConfig", "EmergencyBrake"}

\* The root command, whose usage the top-level fallback arm returns.
RootName == "scm"

\* Whose usage text the fallback arm of an unmatched path returns:
\* m.usage() in a matched group, sub_matches.usage() otherwise and in the
\* EmergencyBrake group.
FallbackUsage(group) ==
    IF group \in DispatchGroups /\ group /= "EmergencyBrake"
        THEN group
        ELSE RootName

(***************************************************************************)
(* State of the session.                                                   *)
(***************************************************************************)
VARIABLES
    config,       \* GlobalConfig: debug, color, blake2b, url and the last output
    pc,           \* "prompt", "entered", "matched", "finished" or "panicked"
    cmd,          \* the command line entered
    sub_matches,  \* the ArgMatches made from it
    client,       \* the base client of the latest contract_processor call
    trace,        \* the steps the latest contract_processor call took, in order
    calls,        \* the facade calls it issued
    result,       \* what the invocation returned, None while it has not
    stale_key,    \* the key held by the client of the invocation before
    stale_output, \* the last output as it was when the invocation began
    last_response, \* the response of the latest invocation that succeeded
    prev          \* the invocation the user is repeating, None when none is

vars ==
    <<config, pc, cmd, sub_matches, client, trace, calls, result, stale_key,
      stale_output, last_response, prev>>

\* The url the client is pointed at (get_url).
DefaultUrl == "http://127.0.0.1:1337"

\* What a facade call can return: a response or a transport/contract error.
RpcResults ==
    {[ok |-> TRUE, body |-> "response1"], [ok |-> TRUE, body |-> "response2"],
     [ok |-> FALSE, body |-> "transport error"],
     [ok |-> FALSE, body |-> "contract error"]}

\* Typed values handed to a facade method.
Str(s) == [t |-> "str", s |-> s, n |-> <<>>, b |-> FALSE, l |-> <<>>]

U64(n) == [t |-> "u64", s |-> "", n |-> n, b |-> FALSE, l |-> <<>>]

Bool(b) == [t |-> "bool", s |-> "", n |-> <<>>, b |-> b, l |-> <<>>]

List(l) == [t |-> "list", s |-> "", n |-> <<>>, b |-> FALSE, l |-> l]

Ev(e, w) == [ev |-> e, what |-> w]

Ok == [kind |-> "Ok", type |-> "", detail |-> ""]

Err(type, detail) == [kind |-> "Err", type |-> type, detail |-> detail]

\* ArgMatches::is_present on the matches of "scm" itself.
is_present(sm, name) == name \in sm.flags

\* cli::get_url: the url of the session.
get_url(sm, cfg) == cfg.url

\* cli::blake2b: the hashing algorithm choice of the session.
blake2b(m, cfg) == cfg.blake2b

\* A client constructed once and used again by the next invocation.
ClientNew_Reused == client

\* Client::new(): a client with no private key, not yet configured.
ClientNew == [key |-> None, debug |-> FALSE, uri |-> None]

\* Client::set_private_key
set_private_key(c, k) == [c EXCEPT !.key = Some(k)]

Panic(st) == [st EXCEPT !.status = "panic"]

\* A hashing algorithm choice that is fixed in the match arm.
ResolveHash_Fixed(m, cfg) == FALSE

\* let blake2b = blake2b(m, config);
ResolveHash(m, cfg) == blake2b(m, cfg)

\* A quota that falls back to a number chosen here when none is given.
ResolveQuota_Default(v) ==
    IF v = None THEN [ok |-> TRUE, quota |-> Some(<<0>>)]
    ELSE IF ~parse_u64_ok(v[1]) THEN [ok |-> FALSE, quota |-> None]
    ELSE [ok |-> TRUE, quota |-> Some(parse_u64(v[1]))]

\* m.value_of("quota").map(|quota| parse_u64(quota).unwrap()): absent stays
\* absent, a given value is parsed, and a value that does not parse panics.
ResolveQuota(v) ==
    IF v = None THEN [ok |-> TRUE, quota |-> None]
    ELSE IF ~parse_u64_ok(v[1]) THEN [ok |-> FALSE, quota |-> None]
    ELSE [ok |-> TRUE, quota |-> Some(parse_u64(v[1]))]

\* return Err(e) (or the ? operator) inside a match arm
Return(st, e) == [st EXCEPT !.status = "return", !.err = e]

Read(st, a) == [st EXCEPT !.trace = Append(@, Ev("value_of", a))]

Bind(st, a, v) == [st EXCEPT !.env = (a :> v) @@ @]

\* One statement of a match arm.
ExecStep(s, st0, m, cfg, rpc) ==
    LET st == IF s.op \in {"blake2b", "create", "query", "send"}
                 THEN st0 ELSE Read(st0, s.a)
        v == value_of(m, s.a)
    IN
    CASE s.op = "blake2b" ->
           [st EXCEPT !.blake2b = Some(ResolveHash(m, cfg)),
                      !.trace = Append(@, Ev("blake2b", ""))]
      [] s.op = "set_private_key" ->
           IF v = None THEN Panic(st)
           ELSE IF ~parse_privkey(v[1]) THEN Return(st, Err("privkey", s.a))
           ELSE [st EXCEPT !.client = set_private_key(@, v[1]),
                           !.trace = Append(@, Ev("set_private_key", v[1]))]
      [] s.op = "unwrap" ->
           IF v = None THEN Panic(st) ELSE Bind(st, s.a, Str(v[1]))
      [] s.op = "quota" ->
           IF ~ResolveQuota(v).ok THEN Panic(st)
           ELSE [st EXCEPT !.quota = ResolveQuota(v).quota]
      [] s.op = "try_u64" ->
           IF v = None THEN Panic(st)
           ELSE IF ~parse_u64_ok(v[1]) THEN Return(st, Err("u64", s.a))
           ELSE Bind(st, s.a, U64(parse_u64(v[1])))
      [] s.op = "stake_string" ->
           IF v = None \/ ~parse_u64_ok(v[1]) THEN Panic(st)
           ELSE Bind(st, s.a, Str(u64_to_string(parse_u64(v[1]))))
      [] s.op = "parse_bool" ->
           IF v = None \/ ~parse_bool_ok(v[1]) THEN Panic(st)
           ELSE Bind(st, s.a, Bool(parse_bool(v[1])))
      [] s.op = "values_of" ->
           IF values_of(m, s.a) = None THEN Panic(st)
           ELSE Bind(st, s.a, List(values_of(m, s.a)[1]))
      [] s.op = "create" ->
           [st EXCEPT !.facade = Some(s.a),
                      !.trace = Append(@, Ev("create", s.a))]
      [] s.op = "query" ->
           [st EXCEPT
              !.status = "called", !.ret = Some(rpc),
              !.trace = Append(Append(@, Ev("value_of", "height")),
                               Ev("call", s.a)),
              !.calls = Append(@,
                  [facade |-> st.facade, method |-> s.a, signed |-> FALSE,
                   args |-> [i \in 1..Len(s.args) |-> st.env[s.args[i]]],
                   height |-> value_of(m, "height"), quota |-> None,
                   blake2b |-> None, key |-> st.client.key, ret |-> rpc])]
      [] s.op = "send" ->
           [st EXCEPT
              !.status = "called", !.ret = Some(rpc),
              !.trace = Append(@, Ev("call", s.a)),
              !.calls = Append(@,
                  [facade |-> st.facade, method |-> s.a, signed |-> TRUE,
                   args |-> [i \in 1..Len(s.args) |-> st.env[s.args[i]]],
                   height |-> None, quota |-> st.quota,
                   blake2b |-> st.blake2b, key |-> st.client.key, ret |-> rpc])]

\* The statements of a match arm, from the i-th on, until one returns,
\* panics or issues the facade call.
RECURSIVE Exec(_, _, _, _, _, _)
Exec(steps, i, st, m, cfg, rpc) ==
    IF st.status /= "run" \/ i > Len(steps)
        THEN st
        ELSE Exec(steps, i + 1, ExecStep(steps[i], st, m, cfg, rpc), m, cfg, rpc)

\* Dispatch with a fallback arm that returns Ok(()) without doing anything.
Dispatch_SilentFallback(sm, st, cfg, rpc) ==
    IF <<sm.group, sm.op>> \in DOMAIN Branches
        THEN Exec(Branches[<<sm.group, sm.op>>], 1, st, sm.m, cfg, rpc)
        ELSE Return(st, Ok)

\* Dispatch that resolves the hashing algorithm before it matches the path.
Dispatch_HashFirst(sm, st, cfg, rpc) ==
    LET st1 == ExecStep(Blake, st, sm.m, cfg, rpc)
    IN IF <<sm.group, sm.op>> \in DOMAIN Branches
          THEN Exec(Branches[<<sm.group, sm.op>>], 1, st1, sm.m, cfg, rpc)
          ELSE Return([st1 EXCEPT !.trace = Append(@, Ev("usage", FallbackUsage(sm.group)))],
                      Err("usage", FallbackUsage(sm.group)))

\* The match of contract_processor() on (group, operation).
Dispatch(sm, st, cfg, rpc) ==
    IF <<sm.group, sm.op>> \in DOMAIN Branches
        THEN Exec(Branches[<<sm.group, sm.op>>], 1, st, sm.m, cfg, rpc)
        ELSE Return([st EXCEPT !.trace = Append(@, Ev("usage", FallbackUsage(sm.group)))],
                  Err("usage", FallbackUsage(sm.group)))

\* client construction and configuration, lines 859-863
Connect(sm, cfg) ==
    LET debug == is_present(sm, "debug") \/ cfg.debug
    IN [client |-> [ClientNew EXCEPT !.debug = debug, !.uri = Some(get_url(sm, cfg))],
        trace |-> <<Ev("is_present", "debug"), Ev("Client::new", ""),
                    Ev("set_debug", ""), Ev("get_url", ""), Ev("set_uri", "")>>]

\* An end of contract_processor that prints the response and does not
\* record it.
Finish_NoSetOutput(st, cfg) ==
    LET t1 == Append(st.trace, Ev("is_present", "no-color"))
        r == st.ret[1]
    IN IF ~r.ok
          THEN [status |-> "finished", result |-> Some(Err("rpc", r.body)),
                client |-> st.client, config |-> cfg, calls |-> st.calls,
                trace |-> t1]
          ELSE [status |-> "finished", result |-> Some(Ok),
                client |-> st.client, config |-> cfg, calls |-> st.calls,
                trace |-> Append(t1, Ev("println", r.body))]

\* An end of contract_processor that issues a failed call once more
\* before it gives up.
Finish_RetryOnce(st, cfg) ==
    LET t1 == Append(st.trace, Ev("is_present", "no-color"))
        r == st.ret[1]
    IN IF ~r.ok
          THEN [status |-> "finished", result |-> Some(Err("rpc", r.body)),
                client |-> st.client, config |-> cfg,
                calls |-> st.calls \o st.calls,
                trace |-> Append(t1, Ev("call", st.calls[1].method))]
          ELSE [status |-> "finished", result |-> Some(Ok),
                client |-> st.client,
                config |-> [cfg EXCEPT !.output = Some(r.body)],
                calls |-> st.calls,
                trace |-> t1 \o <<Ev("println", r.body),
                                  Ev("set_output", r.body)>>]

\* An end of contract_processor that prints the last output on record
\* instead of the response it has just received.
Finish_PrintsLastOutput(st, cfg) ==
    LET t1 == Append(st.trace, Ev("is_present", "no-color"))
        r == st.ret[1]
        shown == IF cfg.output = None THEN "" ELSE cfg.output[1]
    IN IF ~r.ok
          THEN [status |-> "finished", result |-> Some(Err("rpc", r.body)),
                client |-> st.client, config |-> cfg, calls |-> st.calls,
                trace |-> t1]
          ELSE [status |-> "finished", result |-> Some(Ok),
                client |-> st.client,
                config |-> [cfg EXCEPT !.output = Some(r.body)],
                calls |-> st.calls,
                trace |-> t1 \o <<Ev("println", shown),
                                  Ev("set_output", r.body)>>]

\* An end of contract_processor that records the message of a failed call
\* as the last output.
Finish_RecordsError(st, cfg) ==
    LET t1 == Append(st.trace, Ev("is_present", "no-color"))
        r == st.ret[1]
    IN IF ~r.ok
          THEN [status |-> "finished", result |-> Some(Err("rpc", r.body)),
                client |-> st.client,
                config |-> [cfg EXCEPT !.output = Some(r.body)],
                calls |-> st.calls,
                trace |-> Append(t1, Ev("set_output", r.body))]
          ELSE [status |-> "finished", result |-> Some(Ok),
                client |-> st.client,
                config |-> [cfg EXCEPT !.output = Some(r.body)],
                calls |-> st.calls,
                trace |-> t1 \o <<Ev("println", r.body),
                                  Ev("set_output", r.body)>>]

\* The end of contract_processor, lines 1452-1456, once the match arm has
\* issued its facade call: an error is returned as the invocation's error,
\* a response is printed and recorded as the last output.
Finish(st, cfg) ==
    LET t1 == Append(st.trace, Ev("is_present", "no-color"))
        r == st.ret[1]
    IN IF ~r.ok
          THEN [status |-> "finished", result |-> Some(Err("rpc", r.body)),
                client |-> st.client, config |-> cfg, calls |-> st.calls,
                trace |-> t1]
          ELSE [status |-> "finished", result |-> Some(Ok),
                client |-> st.client,
                config |-> [cfg EXCEPT !.output = Some(r.body)],
                calls |-> st.calls,
                trace |-> t1 \o <<Ev("println", r.body),
                                  Ev("set_output", r.body)>>]

\* contract_processor(sub_matches, printer, config) as a whole; newOk says
\* whether Client::new() succeeds, rpc is what the facade call returns if
\* one is issued.
Processor(sm, cfg, newOk, rpc) ==
    IF ~newOk
        THEN [status |-> "finished", result |-> Some(Err("io", "Client::new")),
              client |-> client, config |-> cfg, calls |-> <<>>,
              trace |-> <<Ev("is_present", "debug"), Ev("Client::new", "")>>]
        ELSE
          LET c0 == Connect(sm, cfg)
              st0 == [client |-> c0.client, facade |-> None, env |-> <<>>,
                      quota |-> None, blake2b |-> None, trace |-> c0.trace,
                      calls |-> <<>>, status |-> "run", err |-> Ok, ret |-> None]
              st == Dispatch(sm, st0, cfg, rpc)
          IN
          CASE st.status = "panic" ->
                 [status |-> "panicked", result |-> None, client |-> st.client,
                  config |-> cfg, calls |-> st.calls, trace |-> st.trace]
            [] st.status = "return" ->
                 [status |-> "finished", result |-> Some(st.err),
                  client |-> st.client, config |-> cfg, calls |-> st.calls,
                  trace |-> st.trace]
            [] st.status = "called" -> Finish(st, cfg)

(***************************************************************************)
(* The session.                                                            *)
(***************************************************************************)
NoMatches == [group |-> NoSub, op |-> NoSub, flags |-> {}, m |-> <<>>]

\* Before the first invocation no client has been constructed.
NoClient == [key |-> None, debug |-> FALSE, uri |-> None]

Init ==
    /\ config \in [debug : BOOLEAN, color : {TRUE}, blake2b : BOOLEAN,
                   url : {DefaultUrl}, output : {None}]
    /\ pc = "prompt"
    /\ cmd = NoCommand
    /\ sub_matches = NoMatches
    /\ client = NoClient
    /\ trace = <<>>
    /\ calls = <<>>
    /\ result = None
    /\ stale_key = None
    /\ stale_output = None
    /\ last_response = None
    /\ prev = None

\* The user enters a command line at the prompt.
Enter ==
    /\ pc = "prompt"
    /\ \E c \in CommandLines : cmd' = c
    /\ pc' = "entered"
    /\ UNCHANGED <<config, sub_matches, client, trace, calls, result, stale_key,
                   stale_output, last_response, prev>>

\* A schema whose private key validator installs the key it has parsed.
GetMatches_InstallsKey ==
    /\ pc = "entered"
    /\ IF SchemaAccepts(cmd)
          THEN /\ sub_matches' = [group |-> cmd.group, op |-> cmd.op,
                                  flags |-> {}, m |-> MatchesOf(cmd)]
               /\ pc' = "matched"
               /\ UNCHANGED result
          ELSE /\ LET specs == contract_command[<<cmd.group, cmd.op>>]
                      i == FirstRejected(specs, cmd.args)
                  IN result' = Some(Err(ArgError(specs[i], cmd.args[specs[i].name]),
                                        specs[i].name))
               /\ pc' = "finished"
               /\ UNCHANGED sub_matches
    /\ client' =
          IF value_of(cmd.args, "private-key") /= None
                /\ parse_privkey(value_of(cmd.args, "private-key")[1])
             THEN set_private_key(client, value_of(cmd.args, "private-key")[1])
             ELSE client
    /\ UNCHANGED <<config, cmd, trace, calls, stale_key, stale_output,
                   last_response, prev>>

\* The schema is applied to the command line: it is rejected, or its
\* matches are made.
GetMatches ==
    /\ pc = "entered"
    /\ IF SchemaAccepts(cmd)
          THEN /\ sub_matches' = [group |-> cmd.group, op |-> cmd.op,
                                  flags |-> {}, m |-> MatchesOf(cmd)]
               /\ pc' = "matched"
               /\ UNCHANGED result
          ELSE /\ LET specs == contract_command[<<cmd.group, cmd.op>>]
                      i == FirstRejected(specs, cmd.args)
                  IN result' = Some(Err(ArgError(specs[i], cmd.args[specs[i].name]),
                                        specs[i].name))
               /\ pc' = "finished"
               /\ UNCHANGED sub_matches
    /\ UNCHANGED <<config, cmd, client, trace, calls, stale_key, stale_output,
                   last_response, prev>>

\* contract_processor runs on the matches.
contract_processor ==
    /\ pc = "matched"
    /\ \E newOk \in BOOLEAN, rpc \in RpcResults :
          LET r == Processor(sub_matches, config, newOk, rpc)
          IN /\ pc' = r.status
             /\ result' = r.result
             /\ client' = r.client
             /\ config' = r.config
             /\ calls' = r.calls
             /\ trace' = r.trace
             /\ last_response' =
                   IF r.result = Some(Ok) /\ r.calls /= <<>>
                       THEN Some(r.calls[1].ret.body)
                       ELSE last_response
    /\ stale_key' = client.key
    /\ stale_output' = config.output
    /\ UNCHANGED <<cmd, sub_matches, prev>>

\* The invocation is over; the session is back at the prompt.
Prompt ==
    /\ pc = "finished"
    /\ pc' = "prompt"
    /\ cmd' = NoCommand
    /\ sub_matches' = NoMatches
    /\ trace' = <<>>
    /\ calls' = <<>>
    /\ result' = None
    /\ stale_key' = None
    /\ stale_output' = None
    /\ prev' = None
    /\ UNCHANGED <<config, client, last_response>>

\* The user enters the command line of the read-only query that has just
\* been dispatched once more, with nothing in between.
Again ==
    /\ pc = "finished"
    /\ prev = None
    /\ \E i \in DOMAIN trace : trace[i].ev = "set_uri"
    /\ <<cmd.group, cmd.op>> \in DOMAIN Branches
    /\ Branches[<<cmd.group, cmd.op>>][Len(Branches[<<cmd.group, cmd.op>>])].op = "query"
    /\ prev' = Some([calls |-> calls, result |-> result, trace |-> trace])
    /\ pc' = "entered"
    /\ sub_matches' = NoMatches
    /\ trace' = <<>>
    /\ calls' = <<>>
    /\ result' = None
    /\ stale_key' = None
    /\ stale_output' = None
    /\ UNCHANGED <<config, cmd, client, last_response>>

Next == Enter \/ GetMatches \/ contract_processor \/ Prompt \/ Again

Spec == Init /\ [][Next]_vars

(***************************************************************************)
(* Properties.                                                             *)
(***************************************************************************)
CmdPath == <<cmd.group, cmd.op>>

\* contract_processor has run on the command line entered.
Ran == pc \in {"finished", "panicked"} /\ trace /= <<>>

HasEv(e) == \E i \in DOMAIN trace : trace[i].ev = e

\* The position of the first step e in the trace, 0 when there is none.
FirstEv(e) ==
    IF HasEv(e)
        THEN CHOOSE i \in DOMAIN trace :
                 trace[i].ev = e /\ \A j \in 1..(i - 1) : trace[j].ev /= e
        ELSE 0

\* contract_processor has run and reached its match on the path.
Dispatched == Ran /\ HasEv("set_uri")

\* The path entered has no match arm.
Unmatched == CmdPath \notin DOMAIN Branches

\* Nothing of a dispatch happened: no key, no facade, no call, no output.
NoSideEffects ==
    /\ calls = <<>>
    /\ ~HasEv("set_private_key") /\ ~HasEv("create") /\ ~HasEv("call")
    /\ ~HasEv("println") /\ ~HasEv("set_output")

IsErr(r) == r /= None /\ r[1].kind = "Err"

\* C1: every path the schema declares has a match arm, so a command the
\* schema accepted never reaches a fallback arm; and a path that reaches a
\* fallback arm ends in the usage error.
C1_DeclaredPathsDispatched ==
    Ran =>
      /\ CmdPath \in SchemaPaths => ~HasEv("usage")
      /\ HasEv("usage") =>
            pc = "finished" /\ result = Some(Err("usage", FallbackUsage(cmd.group)))

\* The arguments a match arm reads as mandatory values.
MandatoryReads(steps) ==
    {steps[i].a : i \in {j \in 1..Len(steps) :
        steps[j].op \in {"unwrap", "set_private_key", "try_u64", "stake_string",
                         "parse_bool", "values_of"}}}

RequiredNames(specs) ==
    {specs[i].name : i \in {j \in 1..Len(specs) : specs[j].required}}

\* C2: the arguments the match arm of the accepted command reads as
\* mandatory values are all declared required in its schema entry, and the
\* dispatch does not hit a missing mandatory value (it does not panic).
C2_DispatchReadsDeclared ==
    (Dispatched /\ CmdPath \in SchemaPaths \cap DOMAIN Branches) =>
      /\ MandatoryReads(Branches[CmdPath]) \subseteq RequiredNames(contract_command[CmdPath])
      /\ pc /= "panicked"

\* The facade method that carries the name of an operation.
MethodNamedAfter ==
    ("addAccounts" :> "add_accounts") @@
    ("addPermissions" :> "add_permissions") @@
    ("addResources" :> "add_resources") @@
    ("admin" :> "admin") @@
    ("approveNode" :> "approve_node") @@
    ("cancelAuthorization" :> "cancel_authorization") @@
    ("cancelAuthorizations" :> "cancel_authorizations") @@
    ("cancelRole" :> "cancel_role") @@
    ("checkPermission" :> "check_permission") @@
    ("checkResource" :> "check_resource") @@
    ("checkScope" :> "check_scope") @@
    ("clearAuthorization" :> "clear_authorization") @@
    ("clearRole" :> "clear_role") @@
    ("deleteAccounts" :> "delete_accounts") @@
    ("deleteGroup" :> "delete_group") @@
    ("deleteNode" :> "delete_node") @@
    ("deletePermission" :> "delete_permission") @@
    ("deletePermissions" :> "delete_permissions") @@
    ("deleteResources" :> "delete_resources") @@
    ("deleteRole" :> "delete_role") @@
    ("getAQL" :> "get_aql") @@
    ("getAccounts" :> "get_accounts") @@
    ("getBQL" :> "get_bql") @@
    ("getChainOwner" :> "get_chain_owner") @@
    ("getDefaultAQL" :> "get_default_aql") @@
    ("getDelayBlockNumber" :> "get_delay_block_number") @@
    ("getEconomicalModel" :> "get_economical_model") @@
    ("getFeeBackPlatformCheck" :> "get_fee_back_platform_check") @@
    ("getPermissionCheck" :> "get_permission_check") @@
    ("getQuotaCheck" :> "get_quota_check") @@
    ("getQuotas" :> "get_quotas") @@
    ("getStatus" :> "get_status") @@
    ("inGroup" :> "in_group") @@
    ("inPermission" :> "in_permission") @@
    ("inPermissions" :> "in_permissions") @@
    ("isAdmin" :> "is_admin") @@
    ("lengthOfPermissions" :> "length_of_permissions") @@
    ("listNode" :> "list_node") @@
    ("listStake" :> "list_stake") @@
    ("multiTxs" :> "multi_txs") @@
    ("newGroup" :> "new_group") @@
    ("newPermission" :> "new_permission") @@
    ("newRole" :> "new_role") @@
    ("queryAccounts" :> "query_accounts") @@
    ("queryAllAccounts" :> "query_all_accounts") @@
    ("queryChild" :> "query_child") @@
    ("queryChildLength" :> "query_child_length") @@
    ("queryGroups" :> "query_groups") @@
    ("queryInfo" :> "query_info") @@
    ("queryName" :> "query_name") @@
    ("queryParent" :> "query_parent") @@
    ("queryPermissions" :> "query_permissions") @@
    ("queryResource" :> "query_resource") @@
    ("queryRole" :> "query_role") @@
    ("queryRoles" :> "query_roles") @@
    ("setAQL" :> "set_aql") @@
    ("setAuthorization" :> "set_authorization") @@
    ("setAuthorizations" :> "set_authorizations") @@
    ("setBQL" :> "set_bql") @@
    ("setChainName" :> "set_chain_name") @@
    ("setDefaultAQL" :> "set_default_aql") @@
    ("setOperator" :> "set_operator") @@
    ("setRole" :> "set_role") @@
    ("setStake" :> "set_stake") @@
    ("setState" :> "set_state") @@
    ("setWebsite" :> "set_website") @@
    ("stakePermillage" :> "stake_permillage") @@
    ("state" :> "state") @@
    ("update" :> "update") @@
    ("updateGroupName" :> "update_group_name") @@
    ("updatePermissionName" :> "update_permission_name") @@
    ("updateRoleName" :> "update_role_name")

\* The facade method the match arm of a path ends in.
BranchMethod(p) == Branches[p][Len(Branches[p])].a

\* C3: the match arm of the dispatched operation does not invoke the facade
\* method named after another operation of its group, and a call it issues
\* is a call of its own method.
C3_OwnFacadeMethod ==
    (Dispatched /\ CmdPath \in DOMAIN Branches) =>
      /\ \A q \in SchemaPaths :
            (q[1] = cmd.group /\ MethodNamedAfter[q[2]] = BranchMethod(CmdPath))
                => q[2] = cmd.op
      /\ \A i \in DOMAIN calls : calls[i].method = BranchMethod(CmdPath)

C5_SameErrorAsUnknownPath ==
    (Ran /\ Unmatched /\ IsErr(result) /\ result[1].type = "usage") =>
        result = Some(Err("usage", FallbackUsage(NoSub)))

\* The steps that construct and configure the base client.
SetupEvents == {"is_present", "Client::new", "set_debug", "get_url", "set_uri"}

C7_CmdValid ==
    /\ CmdPath \in SchemaPaths
    /\ LET specs == contract_command[CmdPath]
       IN \A i \in 1..Len(specs) :
            LET given == cmd.args[specs[i].name]
            IN /\ specs[i].required => given /= <<>>
               /\ \A k \in 1..Len(given) : Validates(specs[i].validator, given[k])

\* C7: no key is installed, no facade constructed and no facade method
\* called unless the command line is valid; an invalid command line of a
\* declared operation ends in an error with no step of the dispatch taken.
C7_NoDispatchUnlessValid ==
    /\ (HasEv("set_private_key") \/ HasEv("create") \/ HasEv("call") \/ calls /= <<>>)
          => C7_CmdValid
    /\ (pc \in {"finished", "panicked"} /\ CmdPath \in SchemaPaths /\ ~C7_CmdValid)
          => pc = "finished" /\ IsErr(result) /\ trace = <<>> /\ calls = <<>>

C7_Witness ==
    /\ pc = "finished" /\ CmdPath = <<"NodeManager", "deleteNode">>
    /\ cmd.args["admin-private"] = <<Key1>> /\ cmd.args["address"] = <<>>
    /\ result = Some(Err("MissingRequiredArgument", "address"))
    /\ trace = <<>>

\* The key given on the command line of this invocation.
OwnKey ==
    IF value_of(sub_matches.m, "private-key") /= None
        THEN value_of(sub_matches.m, "private-key")
        ELSE value_of(sub_matches.m, "admin-private")

\* The operation entered declares a private key argument.
DeclaresKey ==
    /\ CmdPath \in SchemaPaths
    /\ \E i \in 1..Len(contract_command[CmdPath]) :
          contract_command[CmdPath][i].validator = "parse_privkey"

\* C8: in an invocation of a write operation the key of this invocation is
\* installed before the facade is constructed and before the signed call is
\* issued, and the call is made with that key in the context; a key that
\* does not parse at dispatch ends the invocation with no facade call.
C8_KeyInstalledBeforeFacade ==
    /\ (DeclaresKey /\ HasEv("create")) =>
          /\ 0 < FirstEv("set_private_key")
          /\ FirstEv("set_private_key") < FirstEv("create")
          /\ trace[FirstEv("set_private_key")].what = OwnKey[1]
    /\ \A i \in DOMAIN calls : calls[i].signed =>
          /\ DeclaresKey /\ calls[i].key = OwnKey /\ OwnKey /= None
          /\ FirstEv("create") < FirstEv("call")
    /\ (IsErr(result) /\ result[1].type = "privkey") => calls = <<>>

C8_Witness ==
    /\ pc = "finished" /\ Len(calls) = 1 /\ calls[1].signed
    /\ calls[1].key = Some(Key2) /\ stale_key = Some(Key1)
    /\ client.key = Some(Key2)

\* C9: the context an invocation uses holds no key of an earlier invocation:
\* a read call is made with no key in the context, a signed call with the
\* key of this invocation, and the context the invocation leaves holds that
\* key or none.
C9_NoKeyRetained ==
    /\ \A i \in DOMAIN calls :
          calls[i].key = (IF calls[i].signed THEN OwnKey ELSE None)
    /\ Dispatched => client.key \in {None, OwnKey}

C9_Witness ==
    /\ pc = "finished" /\ stale_key /= None
    /\ Len(calls) = 1 /\ ~calls[1].signed /\ calls[1].key = None
    /\ result = Some(Ok)

\* C10: an invocation of the dispatcher with a command the schema accepted
\* ends with exactly one result and at most one facade call.
C10_ExactlyOneResult ==
    (Ran /\ CmdPath \in SchemaPaths) => Len(result) = 1 /\ Len(calls) <= 1

\* The raw value the user gave for an argument, None when it was left out.
Given(name) == value_of(cmd.args, name)

\* C11: a signed call of a command that gave no --quota carries an absent
\* quota, a signed call of a command that gave --quota 7 carries the number
\* 7 (the digit sequence <<7>>), and no invocation ends at the step that resolves the quota.
C11_QuotaAbsentOrGiven ==
    /\ \A i \in DOMAIN calls : calls[i].signed =>
          /\ Given("quota") = None => calls[i].quota = None
          /\ Given("quota") = Some("7") => calls[i].quota = Some(<<7>>)
    /\ ~(pc = "panicked" /\ trace[Len(trace)] = Ev("value_of", "quota"))
    /\ (IsErr(result) /\ Ran) => result[1].detail /= "quota"

C11_Witness ==
    /\ pc = "finished" /\ result = Some(Ok)
    /\ Len(calls) = 1 /\ calls[1].signed
    /\ "quota" \in DOMAIN cmd.args /\ Given("quota") = None
    /\ calls[1].quota = None

\* The schema entry of a path declares a required private key and an
\* optional quota.
DeclaresWrite(p) ==
    /\ \E i \in 1..Len(contract_command[p]) :
          /\ contract_command[p][i].validator = "parse_privkey"
          /\ contract_command[p][i].required
    /\ \E i \in 1..Len(contract_command[p]) :
          /\ contract_command[p][i].name = "quota"
          /\ ~contract_command[p][i].required

\* The schema entry of a path declares a height and no private key.
DeclaresRead(p) ==
    /\ \E i \in 1..Len(contract_command[p]) :
          contract_command[p][i].name = "height"
    /\ \A i \in 1..Len(contract_command[p]) :
          contract_command[p][i].validator /= "parse_privkey"

\* The match arm of a path ends in a signed call.
DispatchSigned(p) == p \in DOMAIN Branches /\ Branches[p][Len(Branches[p])].op = "send"

\* The match arm of a path ends in a read-only query.
DispatchRead(p) == p \in DOMAIN Branches /\ Branches[p][Len(Branches[p])].op = "query"

\* C12: a read call of a command that gave no --height carries the height
\* "latest", the height a call of the same command with --height latest
\* carries.
C12_OmittedHeightIsLatest ==
    \A i \in DOMAIN calls : ~calls[i].signed =>
        /\ Given("height") = None => calls[i].height = Some("latest")
        /\ Given("height") = Some("latest") => calls[i].height = Some("latest")

\* C13: the operation entered declares a required private key and an
\* optional quota exactly if its match arm ends in a signed call, and
\* declares a height and no private key exactly if its match arm ends in a
\* read-only query.
C13_SchemaTellsWriteFromRead ==
    (pc = "entered" /\ CmdPath \in SchemaPaths) =>
        /\ DeclaresWrite(CmdPath) <=> DispatchSigned(CmdPath)
        /\ DeclaresRead(CmdPath) <=> DispatchRead(CmdPath)

\* C14: the last output is the response of the latest invocation that
\* succeeded; an invocation that succeeds records the response its facade
\* call returned, in place of whatever the last output was before.
C14_LastOutputIsLatestResponse ==
    /\ config.output = last_response
    /\ (Ran /\ result = Some(Ok)) =>
          /\ Len(calls) = 1 /\ calls[1].ret.ok
          /\ config.output = Some(calls[1].ret.body)
          /\ trace[Len(trace)] = Ev("set_output", calls[1].ret.body)

C14_Witness ==
    /\ pc = "finished" /\ result = Some(Ok)
    /\ stale_output = Some("response1")
    /\ Len(calls) = 1 /\ calls[1].ret.body = "response2"
    /\ config.output = Some("response2")

\* C15: every invocation ends in an outcome: success exactly if its facade
\* call returned a value, otherwise an error that carries a message (the
\* message of the failed call, the offending argument or the usage); and
\* nothing is printed or recorded unless the facade call returned a value.
C15_FailureIsErrorOutcome ==
    /\ Ran =>
          /\ pc = "finished" /\ result /= None
          /\ result = Some(Ok) <=> (calls /= <<>> /\ calls[Len(calls)].ret.ok)
          /\ (calls /= <<>> /\ ~calls[Len(calls)].ret.ok) =>
                result = Some(Err("rpc", calls[Len(calls)].ret.body))
          /\ IsErr(result) => result[1].detail /= ""
          /\ (HasEv("println") \/ HasEv("set_output")) => result = Some(Ok)
    /\ (pc = "finished" /\ ~Ran) => IsErr(result) /\ result[1].detail /= ""

\* C16: when the facade call fails the invocation has issued that one call
\* and no other, has printed and recorded nothing, and ends in the error of
\* that call.
C16_NoRetryAfterFailure ==
    \A i \in DOMAIN calls : ~calls[i].ret.ok =>
        /\ Len(calls) = 1
        /\ Cardinality({j \in DOMAIN trace : trace[j].ev = "call"}) = 1
        /\ trace[Len(trace)] = Ev("is_present", "no-color")
        /\ pc = "finished"
        /\ result = Some(Err("rpc", calls[i].ret.body))
        /\ config.output = stale_output

C16_Witness ==
    /\ pc = "finished" /\ Len(calls) = 1 /\ calls[1].signed
    /\ ~calls[1].ret.ok
    /\ result = Some(Err("rpc", "contract error"))

\* C17: QuotaManager setAQL with an address, the quota limit 7 and an
\* admin key, and no --quota, installs that key and issues exactly one
\* signed set_aql call carrying that address, the number 7 and an absent
\* quota.
C17_SetAQLOneWriteCall ==
    (Dispatched /\ CmdPath = <<"QuotaManager", "setAQL">> /\ Given("quota") = None) =>
        /\ pc = "finished"
        /\ Given("quota-limit") = Some("7")
        /\ HasEv("set_private_key") /\ client.key = Given("admin-private")
        /\ Len(calls) = 1
        /\ calls[1].signed /\ calls[1].key = Given("admin-private")
        /\ calls[1].facade = Some("QuotaManageClient")
        /\ calls[1].method = "set_aql"
        /\ calls[1].args = <<Str(Given("address")[1]), U64(<<7>>)>>
        /\ calls[1].quota = None

C17_Witness ==
    /\ pc = "finished" /\ CmdPath = <<"QuotaManager", "setAQL">>
    /\ cmd.args["address"] = <<Addr2>> /\ cmd.args["quota-limit"] = <<"7">>
    /\ cmd.args["admin-private"] = <<Key1>> /\ cmd.args["quota"] = <<>>
    /\ Len(calls) = 1 /\ calls[1].args = <<Str(Addr2), U64(<<7>>)>>
    /\ client.key = Some(Key1)

\* C18: an invocation of a read-only operation issues exactly one read
\* call, carrying the height the user gave, with no key in the context; it
\* declares no private key, installs none and does not resolve the hashing
\* algorithm.
C18_ReadIssuesOneReadCall ==
    (Dispatched /\ DispatchRead(CmdPath)) =>
        /\ Len(calls) = 1 /\ ~calls[1].signed
        /\ Given("height") /= None => calls[1].height = Given("height")
        /\ calls[1].key = None /\ calls[1].blake2b = None
        /\ ~DeclaresKey
        /\ ~HasEv("set_private_key") /\ ~HasEv("blake2b")

\* C19: EmergencyBrake setState with a --state that is neither "true" nor
\* "false" ends in a validation error before the dispatcher takes a step
\* (no key installed, no facade, no call); with --state true the facade
\* receives TRUE and with --state false it receives FALSE.
C19_SetStateBooleanChecked ==
    CmdPath = <<"EmergencyBrake", "setState">> =>
        /\ (pc \in {"matched", "finished", "panicked"} /\ Given("state") /= None
               /\ Given("state")[1] \notin {"true", "false"}) =>
              /\ pc = "finished"
              /\ result = Some(Err("ValueValidation", "state"))
              /\ trace = <<>> /\ NoSideEffects
        /\ \A i \in DOMAIN calls :
              /\ Given("state") = Some("true") => calls[i].args = <<Bool(TRUE)>>
              /\ Given("state") = Some("false") => calls[i].args = <<Bool(FALSE)>>
              /\ Given("state") \in {Some("true"), Some("false")}

C19_Witness ==
    /\ pc = "finished" /\ CmdPath = <<"EmergencyBrake", "setState">>
    /\ cmd.args["state"] = <<"notaboolean">>
    /\ cmd.args["admin-private"] = <<Key1>>
    /\ result = Some(Err("ValueValidation", "state"))
    /\ calls = <<>> /\ client.key /= Some(Key1)

\* The arguments documented as address lists and hash lists.
ListArgs == {"accounts", "contracts", "permissions", "function-hashes"}

\* C20: a delimited value of more than one element given for a list
\* argument is not rejected by validation, and the call the invocation
\* issues carries it as the one string the user typed.
C20_ListsReachFacadeUnsplit ==
    \A name \in ListArgs \cap DOMAIN cmd.args :
        (Given(name) \in {Some(AddrList), Some(HashList)}) =>
            /\ pc = "finished" =>
                  result /= Some(Err("ValueValidation", name))
            /\ \A i \in DOMAIN calls :
                  \E k \in DOMAIN calls[i].args :
                      calls[i].args[k] = Str(Given(name)[1])

\* A facade call without what it returned.
CallOf(c) == [c EXCEPT !.ret = [ok |-> TRUE, body |-> ""]]

\* C21: when a read-only query is repeated, the second invocation issues
\* the call the first one issued (same facade, method, arguments, height
\* and context), and if the chain answers that call as it did before, the
\* second invocation takes the same steps, prints the same payload and
\* returns the same result.
C21_RepeatedReadIdentical ==
    (prev /= None /\ Dispatched) =>
        /\ pc = "finished"
        /\ Len(calls) = Len(prev[1].calls)
        /\ \A i \in DOMAIN calls : CallOf(calls[i]) = CallOf(prev[1].calls[i])
        /\ (\A i \in DOMAIN calls : calls[i].ret = prev[1].calls[i].ret) =>
              /\ result = prev[1].result
              /\ trace = prev[1].trace

C21_Witness ==
    /\ prev /= None /\ pc = "finished" /\ result = Some(Ok)
    /\ prev[1].result = Some(Ok)
    /\ Len(calls) = 1 /\ calls[1].ret.body = "response1"
    /\ prev[1].calls[1].ret.body = "response1"
    /\ stale_output = Some("response1")
    /\ calls[1].height = Some("100")

\* C22: the client context and the configuration change only in a step of
\* contract_processor: applying the schema to a command line, whether it
\* accepts or rejects it, installs no key and leaves both as they were.
C22_ValidationLeavesContext ==
    [][(client' /= client \/ config' /= config) => pc = "matched"]_vars

C22_Witness ==
    /\ pc = "finished" /\ trace = <<>>
    /\ result = Some(Err("ValueValidation", "private-key"))
    /\ Given("private-key") = Some(BadKey)
    /\ client.key = Some(Key1) /\ config.output = Some("response1")

\* The command line has been through the schema.
Validated == pc \in {"matched", "finished", "panicked"}

\* The schema rejected the command line: the dispatcher took no step.
Rejected ==
    /\ pc = "finished" /\ trace = <<>> /\ calls = <<>>
    /\ IsErr(result)
    /\ result[1].type \in {"ValueValidation", "MissingRequiredArgument"}

\* C23: an --address of 20 bytes of hex digits, with or without the 0x
\* prefix, is not rejected by the schema; an --address of hex digits of
\* another length, or of the right length with a character that is no hex
\* digit, makes the schema reject the command line before dispatch.
C23_AddressValidated ==
    ("address" \in DOMAIN cmd.args /\ Given("address") /= None /\ Validated) =>
        /\ Given("address")[1] \in {Addr1, Addr2, AddrBare} =>
              result /= Some(Err("ValueValidation", "address"))
        /\ Given("address")[1] \in {HexShort, AddrNotHex} => Rejected

C23_Witness ==
    /\ Rejected /\ Given("address") = Some(AddrNotHex)
    /\ result = Some(Err("ValueValidation", "address"))

\* The number a decimal numeral stands for, as its digits.
ExpectU64 ==
    ("7" :> <<7>>) @@ ("007" :> <<7>>) @@
    (MaxU64Str :> <<1, 8, 4, 4, 6, 7, 4, 4, 0, 7, 3, 7, 0, 9, 5, 5, 1, 6, 1, 5>>)

\* The decimal numeral of the number a decimal numeral stands for.
ExpectNumeral == ("7" :> "7") @@ ("007" :> "7") @@ (MaxU64Str :> MaxU64Str)

\* C24: a --quota, --quota-limit or --stake that is a decimal numeral of at
\* most 2^64 - 1 is not rejected, and the signed call carries the number it
\* stands for (the stake as the numeral of that number); a negative one or
\* 2^64 makes the schema reject the command line before dispatch.
C24_U64Validated ==
    \A name \in {"quota", "quota-limit", "stake"} \cap DOMAIN cmd.args :
        (Given(name) /= None /\ Validated) =>
            /\ Given(name)[1] \in {"-1", OverU64Str} => Rejected
            /\ Given(name)[1] \in DOMAIN ExpectU64 =>
                  /\ result /= Some(Err("ValueValidation", name))
                  /\ \A i \in DOMAIN calls :
                        /\ name = "quota" =>
                              calls[i].quota = Some(ExpectU64[Given(name)[1]])
                        /\ name = "quota-limit" =>
                              \E k \in DOMAIN calls[i].args :
                                  calls[i].args[k] = U64(ExpectU64[Given(name)[1]])
                        /\ name = "stake" =>
                              calls[i].args =
                                  <<Str(Given("address")[1]),
                                    Str(ExpectNumeral[Given(name)[1]])>>

C24_Witness ==
    /\ pc = "finished" /\ CmdPath = <<"NodeManager", "setStake">>
    /\ Given("stake") = Some("007") /\ Given("quota") = Some("7")
    /\ Len(calls) = 1 /\ calls[1].method = "set_stake"
    /\ calls[1].args = <<Str(Addr1), Str("7")>> /\ calls[1].quota = Some(<<7>>)

\* The names of the arguments a match arm hands to its facade method, in the
\* order of the call.
CallArgNames(p) == Branches[p][Len(Branches[p])].args

\* The position of an argument in the schema entry of a path, 0 when the
\* entry does not declare it.
DeclaredPos(p, n) ==
    IF \E i \in 1..Len(contract_command[p]) : contract_command[p][i].name = n
        THEN CHOOSE i \in 1..Len(contract_command[p]) :
                 contract_command[p][i].name = n
        ELSE 0

\* C25: the arguments of the facade call an invocation issues are the
\* values of declared arguments, in the order in which the schema entry of
\* the operation declares them.
C25_ArgumentsInDeclaredOrder ==
    (CmdPath \in SchemaPaths \cap DOMAIN Branches /\ calls /= <<>>) =>
        /\ Len(calls[1].args) = Len(CallArgNames(CmdPath))
        /\ \A k \in DOMAIN CallArgNames(CmdPath) :
              DeclaredPos(CmdPath, CallArgNames(CmdPath)[k]) > 0
        /\ \A j, k \in DOMAIN CallArgNames(CmdPath) :
              j < k => DeclaredPos(CmdPath, CallArgNames(CmdPath)[j])
                         < DeclaredPos(CmdPath, CallArgNames(CmdPath)[k])

AddressArgs == {"address", "account", "contract", "permission", "origin", "target"}

\* C27: an invocation that issues a facade call was given, for every
\* argument that carries one address, 20 bytes of hex digits.
C27_SingleAddressesValidated ==
    \A name \in AddressArgs \cap DOMAIN cmd.args :
        (Given(name) /= None /\ calls /= <<>>) =>
            Given(name)[1] \in {Addr1, Addr2, AddrBare}

\* The number of steps of one kind the invocation took.
CountEv(e) == Cardinality({i \in DOMAIN trace : trace[i].ev = e})

\* C28: an invocation that does not succeed (rejected, unknown path,
\* failed facade call) leaves the last output as it was and prints nothing;
\* a payload is printed or recorded only by an invocation whose facade call
\* returned a value, once each, the print after the call and the record
\* after the print, and both are the value returned.
C28_FailureLeavesOutput ==
    /\ (Ran /\ result /= Some(Ok)) =>
          /\ config.output = stale_output
          /\ ~HasEv("println") /\ ~HasEv("set_output")
    /\ (pc = "finished" /\ ~Ran) =>
          /\ config.output = last_response
          /\ ~HasEv("println") /\ ~HasEv("set_output")
    /\ (HasEv("println") \/ HasEv("set_output")) =>
          /\ result = Some(Ok) /\ Len(calls) = 1 /\ calls[1].ret.ok
          /\ CountEv("println") = 1 /\ CountEv("set_output") = 1
          /\ FirstEv("call") < FirstEv("println")
          /\ FirstEv("println") < FirstEv("set_output")
          /\ trace[FirstEv("println")].what = calls[1].ret.body
          /\ trace[FirstEv("set_output")].what = calls[1].ret.body

C28_Witness ==
    /\ pc = "finished" /\ Len(calls) = 1 /\ ~calls[1].ret.ok
    /\ IsErr(result) /\ result[1].type = "rpc"
    /\ stale_output = Some("response2") /\ config.output = Some("response2")
    /\ ~HasEv("println")

\* C29: the operation entered declares its --quota and --stake with the
\* validator parse_u64 and its --state with the boolean validator, and no
\* invocation ends in a panic at the step that parses one of them again.
C29_ReparseNeverFails ==
    /\ CmdPath \in SchemaPaths =>
          \A i \in 1..Len(contract_command[CmdPath]) :
              /\ contract_command[CmdPath][i].name \in {"quota", "stake"} =>
                    contract_command[CmdPath][i].validator = "parse_u64"
              /\ contract_command[CmdPath][i].name = "state" =>
                    contract_command[CmdPath][i].validator = "parse_bool"
    /\ pc = "panicked" =>
          trace[Len(trace)].what \notin {"quota", "stake", "state"}

C29_Witness ==
    /\ pc = "finished" /\ CmdPath = <<"NodeManager", "setStake">>
    /\ Given("stake") = Some(MaxU64Str) /\ Given("quota") = Some("7")
    /\ Len(calls) = 1 /\ calls[1].args = <<Str(Addr2), Str(MaxU64Str)>>
    /\ result = Some(Ok)

\* C30: BatchTx multiTxs issues one signed multi_transactions call, after
\* the key of the command line is installed, whose one argument is the
\* list of the --tx-code values as given: all of them, in the order given,
\* each of them hex.
C30_MultiTxsOneCall ==
    (Dispatched /\ CmdPath = <<"BatchTx", "multiTxs">>) =>
        /\ pc = "finished" /\ Len(calls) = 1
        /\ calls[1].signed /\ calls[1].facade = Some("BatchTxClient")
        /\ calls[1].method = "multi_transactions"
        /\ calls[1].args = <<List(cmd.args["tx-code"])>>
        /\ Len(calls[1].args[1].l) = Len(cmd.args["tx-code"])
        /\ \A k \in DOMAIN cmd.args["tx-code"] :
              /\ cmd.args["tx-code"][k] \in {Addr1, HexShort}
              /\ calls[1].args[1].l[k] = cmd.args["tx-code"][k]
        /\ calls[1].key = Given("private-key")
        /\ 0 < FirstEv("set_private_key")
        /\ FirstEv("set_private_key") < FirstEv("call")
        /\ CountEv("call") = 1

C30_Witness ==
    /\ pc = "finished" /\ CmdPath = <<"BatchTx", "multiTxs">>
    /\ cmd.args["tx-code"] = <<HexShort, Addr1>>
    /\ Len(calls) = 1 /\ calls[1].args = <<List(<<HexShort, Addr1>>)>>
    /\ calls[1].key = Some(Key2)

====
